---- MODULE Spec2Model ----
(***************************************************************************)
(* security-todo: the secure record pipeline (AES-256-GCM + SHA-256 over   *)
(* to-do items) and the credential/session system, as implemented twice in *)
(* the repository: the Node/Express application (controllers, middleware, *)
(* utils, models) and the ASP.NET application (the SecureTodo projects).   *)
(* The variable impl selects which of the two implementations is running.  *)
(***************************************************************************)
EXTENDS Integers, Sequences, FiniteSets, TLC

(***************************************************************************)
(* Bounds of the model                                                     *)
(***************************************************************************)
\* the clock advances this many times
MaxTicks == 1
\* refresh tokens issued in one behaviour
MaxTokens == 2
\* successful uses of one refresh token that are counted
MaxUses == 2

(***************************************************************************)
(* Program constants                                                       *)
(***************************************************************************)
\* "RefreshTokenExpirationDays" ?? "7"; expiresIn '7d'
RefreshTokenExpirationDays == 7
\* bcrypt rounds
WorkFactor == 12
\* expiresIn '1h'; AccessTokenExpirationMinutes = 60
AccessTokenHours == 1
\* DateTime.UtcNow.AddDays(n): the clock counts hours
HoursPerDay == 24
\* the life of a refresh token, in hours
RefreshLife == RefreshTokenExpirationDays * HoursPerDay

Emails == {"a@x.io", "b@x.io"}
Passwords == {"Passw0rd1", "password1"}
\* the passwords accounts are registered with
RegisterPasswords == {"Passw0rd1"}
Salts == {"salt1"}
Impls == {"dotnet", "node"}

\* process.env.JWT_SECRET and process.env.JWT_REFRESH_SECRET
JwtSecret == "JWT_SECRET"
JwtRefreshSecret == "JWT_REFRESH_SECRET"
\* a key the server does not hold (a forged token is signed with it)
ForeignKey == "foreign"

VARIABLES
    impl,           \* which implementation runs: "dotnet" or "node"
    refreshSecretSet,\* node: whether JWT_REFRESH_SECRET is configured
    now,            \* the clock, in hours
    users,          \* the Users table / collection
    refreshTokens,  \* dotnet: the RefreshTokens table
    nextToken,      \* dotnet: the next random refresh token string
    handed,         \* every refresh token returned to a caller, with its subject
    resp,           \* the last HTTP response
    okCount,        \* history: successful refreshes per presented token
    loggedOut,      \* history: refresh tokens issued to a subject before its logout completed
    reqs,           \* dotnet: requests in flight between their database read and write
    accessTokens,   \* every access token returned to a caller
    guard,          \* the outcome of the last run of the authentication guard
    attempt         \* the credentials the last login or federated login presented

VARIABLES
    todos,          \* the Todos table / collection
    nextTodo,       \* the creation order of the next to-do (its id and createdAt)
    tampers,        \* how many times the stored fields were altered behind the program
    readOf,         \* the rows the last batch read fetched
    readResult,     \* the response of the last batch read
    todoResp,       \* the response of the last create, update or delete
    todoReqs,       \* updates in flight between their findOne and their save
    aesKey,         \* the configured AES key: its length in bytes, 0 when not set
    serving,        \* whether the process accepts requests
    drawn           \* the nonces the random generator has returned so far

authVars == <<impl, refreshSecretSet, now, users, refreshTokens, nextToken,
              handed, resp, okCount, loggedOut, reqs, accessTokens, guard, attempt>>
todoVars == <<todos, nextTodo, tampers, readOf, readResult, todoResp, todoReqs,
              aesKey, serving, drawn>>
vars == <<authVars, todoVars>>

(***************************************************************************)
(* Values                                                                  *)
(***************************************************************************)
NoUser == 0
NoToken == [kind |-> "none", id |-> 0, userId |-> NoUser, typ |-> "none",
            iat |-> 0, exp |-> 0, key |-> "none"]

\* IJwtService.GenerateRefreshToken(): an opaque random string
OpaqueToken(n) == [kind |-> "opaque", id |-> n, userId |-> NoUser, typ |-> "none",
                   iat |-> 0, exp |-> 0, key |-> "none"]

\* jwt.sign(payload, secret, {expiresIn}): the payload, iat/exp, and the key it is signed with
JwtSign(userId, typ, secret, ttl) ==
    [kind |-> "jwt", id |-> 0, userId |-> userId, typ |-> typ,
     iat |-> now, exp |-> now + ttl, key |-> secret]

\* jwt.verify(token, secret): the signature is by secret and the token is not expired
JwtVerify(token, secret) ==
    /\ token.kind = "jwt"
    /\ token.key = secret
    /\ now < token.exp

\* process.env.JWT_REFRESH_SECRET || process.env.JWT_SECRET
RefreshSecret == IF refreshSecretSet THEN JwtRefreshSecret ELSE JwtSecret

generateRefreshToken(userId) ==
    JwtSign(userId, "refresh", RefreshSecret, RefreshLife)

\* an access token signed for the first account, whoever asked
generateAccessTokenFirstUser(userId) ==
    JwtSign(1, "access", JwtSecret, AccessTokenHours)

\* jwt.sign({ userId }, JWT_SECRET, { expiresIn: '1h' }) / IJwtService.GenerateAccessToken
generateAccessToken(userId) ==
    JwtSign(userId, "access", JwtSecret, AccessTokenHours)

verifyRefreshToken(token) == JwtVerify(token, RefreshSecret)

\* bcrypt: a salted one-way hash, and its verification
HashPassword(password, salt) ==
    [alg |-> "bcrypt", cost |-> WorkFactor, salt |-> salt, of |-> password]

\* a credential without passwordDigest (a federated-only account)
NoHash == [alg |-> "none", cost |-> 0, salt |-> "none", of |-> "none"]

\* a comparison that accepts every password for an account that has one
VerifyPasswordAny(password, hash) == hash # NoHash

VerifyPassword(password, hash) ==
    /\ hash # NoHash
    /\ hash = HashPassword(password, hash.salt)

\* the passwordHash path of a document before the pre-save hook: the password as given
Plain(password) == [alg |-> "plain", cost |-> 0, salt |-> "none", of |-> password]

\* the text of a stored bcrypt hash, taken as the input of another hash
HashText == "$2b$12$"

\* bcrypt.hash(this.passwordHash, salt) of whatever the path holds
bcryptHash(value, salt) ==
    HashPassword(IF value.alg = "plain" THEN value.of ELSE HashText, salt)

\* the credentials of a login or federated login, and the decision taken
NoAttempt == [op |-> "none", email |-> "none", password |-> "none", googleId |-> "none",
              outcome |-> "none"]
Attempt(op, email, password, googleId, outcome) ==
    [op |-> op, email |-> email, password |-> password, googleId |-> googleId,
     outcome |-> outcome]

NoResp == [op |-> "none", status |-> 0, error |-> "none", userId |-> NoUser,
           presented |-> NoToken, refreshToken |-> NoToken, access |-> FALSE]

Response(op, status, error, userId, presented, refreshToken, access) ==
    [op |-> op, status |-> status, error |-> error, userId |-> userId,
     presented |-> presented, refreshToken |-> refreshToken, access |-> access]

NoRead == [userId |-> NoUser, status |-> 0, todos |-> << >>]
NoTodoResp == [op |-> "none", status |-> 0, userId |-> NoUser, id |-> 0, content |-> "none",
               iv |-> "none"]
\* key.length !== 32 / _aesKey.Length != 32
KeyLength == 32
\* AES_KEY not set, a key of the wrong length, a 256-bit key
KeyConfigs == {0, KeyLength \div 2, KeyLength}
Slots == {1, 2}
\* no update in flight
IdleTodo == [pc |-> "idle", userId |-> NoUser, id |-> 0, doc |-> {}]

\* no record stored, no record request answered
InitTodoVars ==
    /\ todos = {}
    /\ nextTodo = 1
    /\ tampers = 0
    /\ readOf = << >>
    /\ readResult = NoRead
    /\ todoResp = NoTodoResp
    /\ todoReqs = [r \in Slots |-> IdleTodo]
    /\ aesKey = KeyLength
    /\ serving = TRUE
    /\ drawn = {}

UserIds == {u.id : u \in users}
UserByEmail(email) == {u \in users : u.email = email}
UserById(id) == {u \in users : u.id = id}

UserByGoogleId(googleId) == {u \in users : u.googleId = googleId}

\* the hook storing the path as it was given
preSaveNoHash(doc, modified, salt) == doc

\* the hook hashing the path on every save
preSaveRehash(doc, modified, salt) ==
    IF doc.passwordHash = NoHash THEN doc
    ELSE [doc EXCEPT !.passwordHash = bcryptHash(doc.passwordHash, salt)]

\* userSchema.pre('save'): hash the path only if it has been modified (or is new)
preSave(doc, modified, salt) ==
    IF "passwordHash" \notin modified THEN doc
    ELSE [doc EXCEPT !.passwordHash = bcryptHash(doc.passwordHash, salt)]

NewUser(email, passwordHash) ==
    [id |-> Cardinality(users) + 1, email |-> email,
     passwordHash |-> passwordHash, googleId |-> "none"]

\* a refresh token no server ever issued: an unknown string (dotnet), a JWT signed
\* with a key the server does not hold (node)
UnknownToken ==
    IF impl = "dotnet" THEN OpaqueToken(0)
    ELSE [kind |-> "jwt", id |-> 0, userId |-> 1, typ |-> "refresh", iat |-> 0,
          exp |-> (MaxTicks + 1) * RefreshLife, key |-> ForeignKey]

HandedTokens == {h.tok : h \in handed}
Presentable == HandedTokens \cup {UnknownToken}
Uses(tok) == IF tok \in DOMAIN okCount THEN okCount[tok] ELSE 0
CountUse(tok) == [t \in DOMAIN okCount \cup {tok} |-> IF t = tok THEN Uses(tok) + 1 ELSE okCount[t]]
IssuedTo(userId) == {h.tok : h \in {x \in handed : x.userId = userId}}

(***************************************************************************)
(* dotnet: the RefreshTokens table and AuthService                         *)
(***************************************************************************)
\* user.RefreshTokens: the navigation collection of a loaded user
UserRefreshTokens(store, userId) == {rt \in store : rt.userId = userId}

\* the row's state in the words of the specification
TokenState(rt) == IF rt.isRevoked THEN "Revoked" ELSE "Active"

\* the lookup without its !rt.IsRevoked conjunct
IsUsableIgnoringRevoked(rt, tok) ==
    /\ rt.token = tok
    /\ rt.expiresAt > now

\* rt.Token == dto.RefreshToken && !rt.IsRevoked && rt.ExpiresAt > DateTime.UtcNow
IsUsable(rt, tok) ==
    /\ rt.token = tok
    /\ ~rt.isRevoked
    /\ rt.expiresAt > now

\* _unitOfWork.Users.FindAsync(u => u.RefreshTokens.Any(...)): the users found
FindByRefreshToken(store, tok) ==
    {u \in users : \E rt \in UserRefreshTokens(store, u.id) : IsUsable(rt, tok)}

\* the old token's change not reaching the database
RevokeTokenLost(store, userId, tok) == store

\* user.RefreshTokens.First(rt => rt.Token == dto.RefreshToken).IsRevoked = true,
\* written by SaveChangesAsync as an UPDATE of that row
RevokeToken(store, userId, tok) ==
    {IF rt.userId = userId /\ rt.token = tok THEN [rt EXCEPT !.isRevoked = TRUE] ELSE rt :
        rt \in store}

\* StoreRefreshTokenAsync: a new row, Active, expiring in RefreshTokenExpirationDays
StoreRefreshToken(store, known, userId, tok) ==
    IF userId \in known
    THEN store \cup {[token |-> tok, userId |-> userId,
                      expiresAt |-> now + RefreshLife,
                      isRevoked |-> FALSE]}
    ELSE store

\* LogoutAsync: foreach (token in user.RefreshTokens.Where(rt => !rt.IsRevoked)) token.IsRevoked = true
\* (seen: the rows the handler loaded), written by SaveChangesAsync as UPDATEs of those rows
RevokeAll(store, seen) ==
    {IF \E s \in seen : s.token = rt.token /\ ~s.isRevoked
     THEN [rt EXCEPT !.isRevoked = TRUE] ELSE rt : rt \in store}

\* the refresh token a handler returns, and the table after it
IssueRefresh(userId) ==
    IF impl = "dotnet" THEN OpaqueToken(nextToken) ELSE generateRefreshToken(userId)

AfterIssue(store, known, userId, tok) ==
    IF impl = "dotnet" THEN StoreRefreshToken(store, known, userId, tok) ELSE store

CanIssue == Cardinality(handed) < MaxTokens

Idle == [op |-> "none", pc |-> "idle", tok |-> NoToken, userId |-> NoUser,
         seen |-> {}, status |-> 0]

(***************************************************************************)
(* Handlers, each as one step (a request served without interleaving)      *)
(***************************************************************************)
\* the login response: tokens issued (and, dotnet, the refresh token stored)
IssueTokens(op, status, user, known) ==
    LET tok == IssueRefresh(user.id) IN
    /\ CanIssue
    /\ refreshTokens' = AfterIssue(refreshTokens, known, user.id, tok)
    /\ nextToken' = IF impl = "dotnet" THEN nextToken + 1 ELSE nextToken
    /\ handed' = handed \cup {[tok |-> tok, userId |-> user.id]}
    /\ accessTokens' = accessTokens \cup {generateAccessToken(user.id)}
    /\ resp' = Response(op, status, "none", user.id, NoToken, tok, TRUE)

\* a refusal that also revokes every stored token (replay handling the code does not have)
RejectRevokingAll(op, status, error, presented) ==
    /\ resp' = Response(op, status, error, NoUser, presented, NoToken, FALSE)
    /\ refreshTokens' = {[rt EXCEPT !.isRevoked = TRUE] : rt \in refreshTokens}
    /\ UNCHANGED <<nextToken, handed, accessTokens>>

Reject(op, status, error, presented) ==
    /\ resp' = Response(op, status, error, NoUser, presented, NoToken, FALSE)
    /\ UNCHANGED <<refreshTokens, nextToken, handed, accessTokens>>

\* AuthService.RegisterAsync / register
Register(email, password, salt) ==
    /\ IF UserByEmail(email) # {}
       THEN /\ Reject("register", 400, "UserAlreadyExists", NoToken)
            /\ UNCHANGED users
       ELSE LET user == IF impl = "node"
                        THEN preSave(NewUser(email, Plain(password)),
                                     {"email", "passwordHash"}, salt)
                        ELSE NewUser(email, HashPassword(password, salt)) IN
            /\ users' = users \cup {user}
            /\ IssueTokens("register", 201, user, UserIds \cup {user.id})
    /\ UNCHANGED <<impl, refreshSecretSet, now, okCount, loggedOut, reqs, guard>>
    /\ attempt' = NoAttempt
    /\ UNCHANGED todoVars

\* AuthService.LoginAsync / login
Login(email, password) ==
    /\ IF UserByEmail(email) = {}
       THEN Reject("login", 401, "InvalidCredentials", NoToken)
       ELSE \E user \in UserByEmail(email) :
            IF user.passwordHash = NoHash
            THEN Reject("login", 401, "GoogleUserNoPassword", NoToken)
            ELSE IF ~VerifyPassword(password, user.passwordHash)
            THEN Reject("login", 401, "InvalidCredentials", NoToken)
            ELSE IssueTokens("login", 200, user, UserIds)
    /\ attempt' = Attempt("login", email, password, "none", "none")
    /\ UNCHANGED <<impl, refreshSecretSet, now, users, okCount, loggedOut, reqs, guard>>
    /\ UNCHANGED todoVars

\* AuthService.RefreshTokenAsync, lines 482-497: rotate, store, answer
RotateRefreshToken(user, tok) ==
    LET new == OpaqueToken(nextToken) IN
    /\ refreshTokens' =
          StoreRefreshToken(RevokeToken(refreshTokens, user.id, tok), UserIds, user.id, new)
    /\ nextToken' = nextToken + 1
    /\ handed' = handed \cup {[tok |-> new, userId |-> user.id]}
    /\ okCount' = CountUse(tok)
    /\ accessTokens' = accessTokens \cup {generateAccessToken(user.id)}
    /\ resp' = Response("refresh", 200, "none", user.id, tok, new, TRUE)

\* AuthService.RefreshTokenAsync
RefreshTokenAsync(tok) ==
    IF FindByRefreshToken(refreshTokens, tok) = {}
    THEN /\ Reject("refresh", 401, "InvalidToken", tok)
         /\ UNCHANGED okCount
    ELSE /\ CanIssue
         /\ Uses(tok) < MaxUses
         /\ \E user \in FindByRefreshToken(refreshTokens, tok) : RotateRefreshToken(user, tok)

\* authController.refresh
refresh(tok) ==
    IF ~verifyRefreshToken(tok)
    THEN /\ Reject("refresh", 401, "InvalidToken", tok)
         /\ UNCHANGED okCount
    ELSE IF UserById(tok.userId) = {}
    THEN /\ Reject("refresh", 401, "UserNotFound", tok)
         /\ UNCHANGED okCount
    ELSE /\ Uses(tok) < MaxUses
         /\ okCount' = CountUse(tok)
         /\ accessTokens' = accessTokens \cup {generateAccessToken(tok.userId)}
         /\ resp' = Response("refresh", 200, "none", tok.userId, tok, NoToken, TRUE)
         /\ UNCHANGED <<refreshTokens, nextToken, handed>>

Refresh(tok) ==
    /\ IF impl = "dotnet" THEN RefreshTokenAsync(tok) ELSE refresh(tok)
    /\ UNCHANGED <<impl, refreshSecretSet, now, users, loggedOut, reqs, guard>>
    /\ attempt' = NoAttempt
    /\ UNCHANGED todoVars

\* AuthService.LogoutAsync
LogoutAsync(userId) ==
    refreshTokens' = RevokeAll(refreshTokens, UserRefreshTokens(refreshTokens, userId))

\* authController.logout: res.clearCookie('token')
logout(userId) ==
    UNCHANGED refreshTokens

Logout(userId) ==
    /\ IF impl = "dotnet" THEN LogoutAsync(userId) ELSE logout(userId)
    /\ loggedOut' = loggedOut \cup IssuedTo(userId)
    /\ resp' = Response("logout", 200, "none", userId, NoToken, NoToken, FALSE)
    /\ UNCHANGED <<impl, refreshSecretSet, now, users, nextToken, handed, okCount, reqs,
                   accessTokens, guard>>
    /\ attempt' = NoAttempt
    /\ UNCHANGED todoVars

\* a decision that looks the email up before the provider id
GoogleDecisionEmailFirst(googleId, email) ==
    IF UserByEmail(email) # {} THEN "Linked"
    ELSE IF UserByGoogleId(googleId) # {} THEN "Matched"
    ELSE "Created"

\* the three-way decision of the verify callback / GoogleLoginAsync, in its priority
GoogleDecision(googleId, email) ==
    IF UserByGoogleId(googleId) # {} THEN "Matched"
    ELSE IF UserByEmail(email) # {} THEN "Linked"
    ELSE "Created"

\* user.save() / User.create() run the pre-save hook; SaveChangesAsync writes the entity
SaveUser(doc, modified, salt) ==
    IF impl = "node" THEN preSave(doc, modified, salt) ELSE doc

\* the Users table after the decision: untouched, the provider id linked to the account
\* with that email, or a new account without passwordHash
GoogleUsers(outcome, googleId, email, salt) ==
    CASE outcome = "Matched" -> users
      [] outcome = "Linked" ->
            {IF u.email = email
             THEN SaveUser([u EXCEPT !.googleId = googleId], {"googleId"}, salt)
             ELSE u : u \in users}
      [] OTHER ->
            users \cup {SaveUser([NewUser(email, NoHash) EXCEPT !.googleId = googleId],
                                 {"email", "googleId"}, salt)}

\* the account the decision hands on: found by provider id, else the one with the email
GoogleUser(outcome, after, googleId, email) ==
    IF outcome = "Matched" THEN {u \in after : u.googleId = googleId}
    ELSE {u \in after : u.email = email}

\* googleCallback: the access token set as cookie; the refresh token it generates is
\* not sent to anyone
googleCallback(user) ==
    /\ accessTokens' = accessTokens \cup {generateAccessToken(user.id)}
    /\ resp' = Response("google", 302, "none", user.id, NoToken, NoToken, TRUE)
    /\ UNCHANGED <<refreshTokens, nextToken, handed>>

\* passport's verify callback then googleCallback / AuthService.GoogleLoginAsync
GoogleLogin(googleId, email, salt) ==
    LET outcome == GoogleDecision(googleId, email)
        after == GoogleUsers(outcome, googleId, email, salt)
    IN /\ users' = after
       /\ attempt' = Attempt("google", email, "none", googleId, outcome)
       /\ \E user \in GoogleUser(outcome, after, googleId, email) :
             IF impl = "dotnet"
             THEN IssueTokens("google", 200, user, {u.id : u \in after})
             ELSE googleCallback(user)
       /\ UNCHANGED <<impl, refreshSecretSet, now, okCount, loggedOut, reqs, guard>>
       /\ UNCHANGED todoVars

\* nothing was presented to the guard yet
NoGuard == [cred |-> NoToken, outcome |-> "none", userId |-> NoUser,
            handler |-> FALSE, ended |-> FALSE]

\* an access token signed with a key the server does not hold
ForgedAccess == [kind |-> "jwt", id |-> 0, userId |-> 1, typ |-> "access", iat |-> 0,
                 exp |-> (MaxTicks + 1) * RefreshLife, key |-> ForeignKey]
\* an access token the server signed for an account that is no longer in the database
OrphanAccess == [kind |-> "jwt", id |-> 0, userId |-> Cardinality(Emails) + 1,
                 typ |-> "access", iat |-> 0,
                 exp |-> (MaxTicks + 1) * RefreshLife, key |-> JwtSecret]
\* what a request can carry as its credential: nothing, a string that is no JWT, a
\* forged token, any token the server returned
Credentials ==
    accessTokens \cup HandedTokens \cup {NoToken, OpaqueToken(0), ForgedAccess, OrphanAccess}

\* the subject of the credential has logged out of every session it opened
SessionEnded(userId) == IssuedTo(userId) # {} /\ IssuedTo(userId) \subseteq loggedOut

GuardResult(cred, outcome) ==
    [cred |-> cred, outcome |-> outcome,
     userId |-> IF outcome = "Principal" THEN cred.userId ELSE NoUser,
     handler |-> outcome = "Principal",
     ended |-> SessionEnded(cred.userId)]

\* the guard refusing the access tokens of a subject that has logged out
authenticateSession(cred) ==
    IF cred = NoToken THEN GuardResult(cred, "NoCredential")
    ELSE IF ~(cred.kind = "jwt" /\ cred.key = JwtSecret) THEN GuardResult(cred, "Invalid")
    ELSE IF now >= cred.exp \/ SessionEnded(cred.userId) THEN GuardResult(cred, "Expired")
    ELSE IF UserById(cred.userId) = {} THEN GuardResult(cred, "PrincipalNotFound")
    ELSE GuardResult(cred, "Principal")

\* the guard without its identity lookup
authenticateNoLookup(cred) ==
    IF cred = NoToken THEN GuardResult(cred, "NoCredential")
    ELSE IF ~(cred.kind = "jwt" /\ cred.key = JwtSecret) THEN GuardResult(cred, "Invalid")
    ELSE IF now >= cred.exp THEN GuardResult(cred, "Expired")
    ELSE GuardResult(cred, "Principal")

\* middleware/auth.js authenticate: the response it sends, or next()
authenticate(cred) ==
    IF cred = NoToken THEN GuardResult(cred, "NoCredential")
    ELSE IF ~(cred.kind = "jwt" /\ cred.key = JwtSecret) THEN GuardResult(cred, "Invalid")
    ELSE IF now >= cred.exp THEN GuardResult(cred, "Expired")
    ELSE IF UserById(cred.userId) = {} THEN GuardResult(cred, "PrincipalNotFound")
    ELSE GuardResult(cred, "Principal")

\* AddJwtBearer with TokenValidationParameters: signing key, lifetime, no clock skew;
\* the controller reads the subject from the claims, no lookup
JwtBearer(cred) ==
    IF cred = NoToken THEN GuardResult(cred, "NoCredential")
    ELSE IF ~(cred.kind = "jwt" /\ cred.key = JwtSecret) THEN GuardResult(cred, "Invalid")
    ELSE IF cred.exp < now THEN GuardResult(cred, "Expired")
    ELSE GuardResult(cred, "Principal")

\* a request to a protected route passes the guard
Authenticate(cred) ==
    /\ guard' = IF impl = "dotnet" THEN JwtBearer(cred) ELSE authenticate(cred)
    /\ UNCHANGED <<impl, refreshSecretSet, now, users, refreshTokens, nextToken, handed,
                   resp, okCount, loggedOut, reqs, accessTokens, attempt>>
    /\ UNCHANGED todoVars

\* time passes: the life of a refresh token
Tick ==
    /\ now < MaxTicks * RefreshLife
    /\ now' = now + RefreshLife
    /\ UNCHANGED <<impl, refreshSecretSet, users, refreshTokens, nextToken, handed,
                   resp, okCount, loggedOut, reqs, accessTokens, guard, attempt>>
    /\ UNCHANGED todoVars

InitAuth ==
    /\ InitTodoVars
    /\ impl \in Impls
    /\ refreshSecretSet \in (IF impl = "node" THEN BOOLEAN ELSE {FALSE})
    /\ now = 0
    /\ users = {}
    /\ refreshTokens = {}
    /\ nextToken = 1
    /\ handed = {}
    /\ resp = NoResp
    /\ okCount = << >>
    /\ loggedOut = {}
    /\ reqs = [r \in Slots |-> Idle]
    /\ accessTokens = {}
    /\ guard = NoGuard
    /\ attempt = NoAttempt

NextAuth ==
    \/ \E email \in Emails, password \in RegisterPasswords, salt \in Salts :
          Register(email, password, salt)
    \/ \E email \in Emails, password \in Passwords : Login(email, password)
    \/ \E tok \in Presentable : Refresh(tok)
    \/ \E userId \in UserIds : Logout(userId)
    \/ \E cred \in Credentials : Authenticate(cred)
    \/ Tick

(***************************************************************************)
(* dotnet handlers as they run concurrently: each request has its own      *)
(* DbContext (AddDbContext, AddScoped), reads the database at its first    *)
(* await and writes it at SaveChangesAsync; other requests run in between. *)
(***************************************************************************)
InFlight == {s \in Slots : reqs[s].pc = "read"}

\* RefreshTokenAsync, lines 471-480: the lookup
RefreshBegin(r, tok) ==
    /\ reqs[r].pc # "read"
    /\ IF FindByRefreshToken(refreshTokens, tok) = {}
       THEN /\ reqs' = [reqs EXCEPT ![r] = [op |-> "refresh", pc |-> "done", tok |-> tok,
                                           userId |-> NoUser, seen |-> {}, status |-> 401]]
            /\ resp' = Response("refresh", 401, "InvalidToken", NoUser, tok, NoToken, FALSE)
       ELSE /\ Cardinality(handed) + Cardinality(InFlight) < MaxTokens + 1
            /\ Uses(tok) < MaxUses
            /\ \E user \in FindByRefreshToken(refreshTokens, tok) :
                  reqs' = [reqs EXCEPT ![r] = [op |-> "refresh", pc |-> "read", tok |-> tok,
                                              userId |-> user.id, seen |-> {}, status |-> 0]]
            /\ UNCHANGED resp
    /\ UNCHANGED <<impl, refreshSecretSet, now, users, refreshTokens, nextToken, handed,
                   okCount, loggedOut, accessTokens, guard, attempt>>
    /\ UNCHANGED todoVars

\* RefreshTokenAsync, lines 482-497: the rotation, saved
RefreshCommit(r) ==
    /\ reqs[r].op = "refresh" /\ reqs[r].pc = "read"
    /\ \E user \in UserById(reqs[r].userId) : RotateRefreshToken(user, reqs[r].tok)
    /\ reqs' = [reqs EXCEPT ![r].pc = "done", ![r].status = 200]
    /\ UNCHANGED <<impl, refreshSecretSet, now, users, loggedOut, guard>>
    /\ attempt' = NoAttempt
    /\ UNCHANGED todoVars

\* UnitOfWork.SaveChangesAsync throwing: its transaction is rolled back, nothing is written
SaveChangesFails(store) == store

\* RefreshTokenAsync failing after the lookup (GetByIdAsync or SaveChangesAsync throws,
\* the request is cancelled): the marked token and the new row were in memory only
RefreshFail(r) ==
    /\ reqs[r].op = "refresh" /\ reqs[r].pc = "read"
    /\ refreshTokens' = SaveChangesFails(refreshTokens)
    /\ reqs' = [reqs EXCEPT ![r].pc = "done", ![r].status = 401]
    /\ resp' = Response("refresh", 401, "RefreshFailed", NoUser, reqs[r].tok,
                        NoToken, FALSE)
    /\ UNCHANGED <<impl, refreshSecretSet, now, users, nextToken, handed, okCount,
                   loggedOut, accessTokens, guard>>
    /\ attempt' = NoAttempt
    /\ UNCHANGED todoVars

\* LogoutAsync, line 552: the user and its tokens, loaded
LogoutBegin(r, userId) ==
    /\ reqs[r].pc # "read"
    /\ reqs' = [reqs EXCEPT ![r] = [op |-> "logout", pc |-> "read", tok |-> NoToken,
                                    userId |-> userId,
                                    seen |-> UserRefreshTokens(refreshTokens, userId),
                                    status |-> 0]]
    /\ UNCHANGED <<impl, refreshSecretSet, now, users, refreshTokens, nextToken, handed,
                   resp, okCount, loggedOut, accessTokens, guard, attempt>>
    /\ UNCHANGED todoVars

\* LogoutAsync, lines 556-560: the loaded tokens revoked, saved
LogoutCommit(r) ==
    /\ reqs[r].op = "logout" /\ reqs[r].pc = "read"
    /\ refreshTokens' = RevokeAll(refreshTokens, reqs[r].seen)
    /\ loggedOut' = loggedOut \cup {s.token : s \in reqs[r].seen}
    /\ reqs' = [reqs EXCEPT ![r].pc = "done", ![r].status = 200]
    /\ resp' = Response("logout", 200, "none", reqs[r].userId, NoToken, NoToken, FALSE)
    /\ UNCHANGED <<impl, refreshSecretSet, now, users, nextToken, handed, okCount,
                   accessTokens, guard>>
    /\ attempt' = NoAttempt
    /\ UNCHANGED todoVars

InitRace ==
    /\ InitAuth
    /\ impl = "dotnet"

NextRace ==
    \/ \E email \in Emails, password \in RegisterPasswords, salt \in Salts :
          Register(email, password, salt)
    \/ \E email \in Emails, password \in Passwords : Login(email, password)
    \/ \E r \in Slots, tok \in Presentable : RefreshBegin(r, tok)
    \/ \E r \in Slots : RefreshCommit(r)
    \/ \E r \in Slots : RefreshFail(r)
    \/ \E r \in Slots, userId \in UserIds : LogoutBegin(r, userId)
    \/ \E r \in Slots : LogoutCommit(r)

(***************************************************************************)
(* CryptoEngine and IntegrityVerifier                                      *)
(***************************************************************************)
Plaintexts == {"buy milk", "call mom"}
\* a string holding a lone surrogate, and the replacement character U+FFFD
LoneSurrogate == "\\uD800"
Replacement == "\\uFFFD"
\* the 12-byte values crypto.randomBytes / RandomNumberGenerator.Fill may return
Ivs == {"iv1", "iv2", "iv3"}

\* update(content, 'utf8') / Encoding.UTF8.GetBytes: an unpaired surrogate is encoded as U+FFFD
Utf8Encode(str) == IF str = LoneSurrogate THEN Replacement ELSE str
\* toString('utf8') / Encoding.UTF8.GetString of well-formed bytes
Utf8Decode(bytes) == bytes

\* SHA-256 of the bytes, as hex digits (collision-free on the model's inputs)
Sha256Digits(bytes) ==
    CASE bytes = "buy milk" -> <<"3", "A", "F", "0">>
      [] bytes = "call mom" -> <<"C", "1", "9", "E">>
      [] bytes = Replacement -> <<"7", "7", "B", "2">>
      [] OTHER -> <<"0", "0", "0", "0">>

ToLowerChar(c) ==
    CASE c = "A" -> "a" [] c = "B" -> "b" [] c = "C" -> "c"
      [] c = "D" -> "d" [] c = "E" -> "e" [] c = "F" -> "f"
      [] OTHER -> c
ToUpperChar(c) ==
    CASE c = "a" -> "A" [] c = "b" -> "B" [] c = "c" -> "C"
      [] c = "d" -> "D" [] c = "e" -> "E" [] c = "f" -> "F"
      [] OTHER -> c
ToLower(hex) == [i \in DOMAIN hex |-> ToLowerChar(hex[i])]
ToUpper(hex) == [i \in DOMAIN hex |-> ToUpperChar(hex[i])]

\* digest('hex') / Convert.ToHexString(hashBytes).ToLowerInvariant()
computeSHA256(content) == ToLower(Sha256Digits(Utf8Encode(content)))

\* a comparison of the digests' lengths only
verifyIntegrityLength(content, storedHash) == Len(computeSHA256(content)) = Len(storedHash)

\* currentHash === storedHash
verifyIntegrity(content, storedHash) == computeSHA256(content) = storedHash

\* string.Equals(currentHash, storedHash, StringComparison.OrdinalIgnoreCase)
VerifyIntegrity(content, storedHash) == ToUpper(computeSHA256(content)) = ToUpper(storedHash)

VerifyHash(content, storedHash) ==
    IF impl = "dotnet" THEN VerifyIntegrity(content, storedHash)
    ELSE verifyIntegrity(content, storedHash)

\* base64 text: the bytes it encodes, and whether a character outside the alphabet was added
Base64(bytes) == [bytes |-> bytes, junk |-> FALSE]
WithJunk(text) == [text EXCEPT !.junk = TRUE]
\* Buffer.from(text, 'base64') skips what it cannot decode; Convert.FromBase64String throws
Base64Decodes(text) == impl = "node" \/ ~text.junk

\* AES-256-GCM under the configured key: the ciphertext of the bytes under the nonce,
\* and the 16-byte tag over nonce and ciphertext
AUTH_TAG_LENGTH == 16
GcmCipher(bytes, iv) == [of |-> bytes, iv |-> iv]
GcmTag(iv, cipher) == [iv |-> iv, cipher |-> cipher, len |-> AUTH_TAG_LENGTH]
Truncated(tag, len) == [tag EXCEPT !.len = len]
GarbageCipher == [of |-> "?", iv |-> "?"]
\* a tag the key never produced
GarbageTag == [iv |-> "none", cipher |-> [of |-> "none", iv |-> "none"],
               len |-> AUTH_TAG_LENGTH]
GarbageIv == "iv?"

\* the tag lengths setAuthTag accepts (no authTagLength option), and new AesGcm(key, 16)
TagLengthAccepted(len) ==
    IF impl = "node" THEN len \in {4, 8, 12, 13, 14, 15, 16} ELSE len = AUTH_TAG_LENGTH

\* getEncryptionKey() returns / the CryptoService constructor returns
KeyValid == aesKey = KeyLength

\* encrypt storing a nonce other than the one it encrypted under
encryptOtherIv(plaintext, iv) ==
    LET cipher == GcmCipher(Utf8Encode(plaintext), iv) IN
    [encryptedContent |-> Base64(cipher), iv |-> Base64(GarbageIv),
     authTag |-> Base64(GcmTag(iv, cipher))]

\* encrypt(plaintext) with the nonce the random generator returned
encrypt(plaintext, iv) ==
    LET cipher == GcmCipher(Utf8Encode(plaintext), iv) IN
    [encryptedContent |-> Base64(cipher), iv |-> Base64(iv),
     authTag |-> Base64(GcmTag(iv, cipher))]

\* decrypt(encryptedContent, ivBase64, authTagBase64): whether it returns, and what
DecryptOk(encryptedContent, ivText, authTagText) ==
    /\ KeyValid
    /\ Base64Decodes(encryptedContent) /\ Base64Decodes(ivText) /\ Base64Decodes(authTagText)
    /\ TagLengthAccepted(authTagText.bytes.len)
    /\ authTagText.bytes.iv = ivText.bytes
    /\ authTagText.bytes.cipher = encryptedContent.bytes

decrypt(encryptedContent, ivText, authTagText) == Utf8Decode(encryptedContent.bytes.of)

(***************************************************************************)
(* RecordPipeline: todoController / TodoService                            *)
(***************************************************************************)
\* to-do records created in one behaviour
MaxTodos == 2
\* alterations of stored fields behind the program in one behaviour
MaxTampers == 1

TodoIds == 1..MaxTodos
IntegrityMarker == "[INTEGRITY VIOLATION - Content may have been tampered with]"
CorruptedMarker == "[DECRYPTION FAILED - Content is corrupted]"
Markers == {IntegrityMarker, CorruptedMarker}

Fields(row) == [encryptedContent |-> row.encryptedContent, iv |-> row.iv,
                authTag |-> row.authTag, integrityHash |-> row.integrityHash]

\* the four fields create and update compute: digest first, then encryption
Sealed(content, iv) ==
    LET integrityHash == computeSHA256(content)
        enc == encrypt(content, iv)
    IN [encryptedContent |-> enc.encryptedContent, iv |-> enc.iv,
        authTag |-> enc.authTag, integrityHash |-> integrityHash]

\* what create or update last wrote: the four fields, and the content they were made from
WrittenAs(content, iv) ==
    LET f == Sealed(content, iv) IN
    [encryptedContent |-> f.encryptedContent, iv |-> f.iv, authTag |-> f.authTag,
     integrityHash |-> f.integrityHash, content |-> content]

\* a stored record; written: the four fields as the program last wrote them
Row(id, userId, f, written) ==
    [id |-> id, userId |-> userId, encryptedContent |-> f.encryptedContent, iv |-> f.iv,
     authTag |-> f.authTag, integrityHash |-> f.integrityHash, written |-> written]

\* Todo.find({ userId }) / GetByUserIdAsync
GetByUserId(userId) == {t \in todos : t.userId = userId}
\* the lookup by id alone
GetByIdOnly(id, userId) == {t \in todos : t.id = id}

\* Todo.findOne({ _id, userId }) / GetByIdAndUserIdAsync
GetByIdAndUserId(id, userId) == {t \in todos : t.id = id /\ t.userId = userId}

\* .sort({ createdAt: -1 }) / OrderByDescending(t => t.CreatedAt)
RECURSIVE SortDesc(_)
SortDesc(rows) ==
    IF rows = {} THEN << >>
    ELSE LET newest == CHOOSE t \in rows : \A o \in rows : o.id <= t.id
         IN <<newest>> \o SortDesc(rows \ {newest})

Entry(id, content, tampered, error, ran) ==
    [id |-> id, content |-> content, tampered |-> tampered, error |-> error, ran |-> ran]

\* the cipher authentication of the stored record succeeds
Authentic(row) == DecryptOk(row.encryptedContent, row.iv, row.authTag)

\* the cipher authentication succeeds and the digest of the decrypted content matches
Verified(row) ==
    /\ Authentic(row)
    /\ VerifyHash(decrypt(row.encryptedContent, row.iv, row.authTag), row.integrityHash)

\* the read loop returning the decrypted content of a record that failed the digest check
DecryptTodoLeaks(todo) ==
    IF ~DecryptOk(todo.encryptedContent, todo.iv, todo.authTag)
    THEN Entry(todo.id, CorruptedMarker, TRUE,
               IF impl = "node" THEN "Decryption failed" ELSE "none", <<"decrypt">>)
    ELSE LET plaintext == decrypt(todo.encryptedContent, todo.iv, todo.authTag) IN
         IF ~VerifyHash(plaintext, todo.integrityHash)
         THEN Entry(todo.id, plaintext, TRUE, "none", <<"decrypt", "verify">>)
         ELSE Entry(todo.id, plaintext, FALSE, "none", <<"decrypt", "verify">>)

\* the read loop reporting a digest mismatch with the decryption-failure marker
DecryptTodoOneMarker(todo) ==
    IF ~DecryptOk(todo.encryptedContent, todo.iv, todo.authTag)
    THEN Entry(todo.id, CorruptedMarker, TRUE,
               IF impl = "node" THEN "Decryption failed" ELSE "none", <<"decrypt">>)
    ELSE LET plaintext == decrypt(todo.encryptedContent, todo.iv, todo.authTag) IN
         IF ~VerifyHash(plaintext, todo.integrityHash)
         THEN Entry(todo.id, CorruptedMarker, TRUE, "none", <<"decrypt", "verify">>)
         ELSE Entry(todo.id, plaintext, FALSE, "none", <<"decrypt", "verify">>)

\* the body of the read loop / DecryptTodoAsync: decrypt, then verify, each failure caught
\* (ran: the checks that were executed; error: the node entry's error field)
DecryptTodo(todo) ==
    IF ~DecryptOk(todo.encryptedContent, todo.iv, todo.authTag)
    THEN Entry(todo.id, CorruptedMarker, TRUE,
               IF impl = "node" THEN "Decryption failed" ELSE "none", <<"decrypt">>)
    ELSE LET plaintext == decrypt(todo.encryptedContent, todo.iv, todo.authTag) IN
         IF ~VerifyHash(plaintext, todo.integrityHash)
         THEN Entry(todo.id, IntegrityMarker, TRUE, "none", <<"decrypt", "verify">>)
         ELSE Entry(todo.id, plaintext, FALSE, "none", <<"decrypt", "verify">>)

\* the read loop with one try/catch around the whole loop: the first failure ends it
RECURSIVE DecryptAllAbort(_)
DecryptAllAbort(rows) ==
    IF rows = << >> THEN << >>
    ELSE IF ~Verified(Head(rows)) THEN <<DecryptTodo(Head(rows))>>
    ELSE <<DecryptTodo(Head(rows))>> \o DecryptAllAbort(Tail(rows))

\* for (const todo of todos) { try {...} catch {...} } / foreach (var todo in todos)
RECURSIVE DecryptAll(_)
DecryptAll(rows) ==
    IF rows = << >> THEN << >>
    ELSE <<DecryptTodo(Head(rows))>> \o DecryptAll(Tail(rows))

TodoResponse(op, status, userId, id, content, iv) ==
    [op |-> op, status |-> status, userId |-> userId, id |-> id, content |-> content,
     iv |-> iv]

\* resolving TodosController needs TodoService and so the CryptoService singleton, whose
\* constructor throws on a missing or wrong key: every todo request answers 500
ControllerFails == impl = "dotnet" /\ ~KeyValid

\* crypto.randomBytes(IV_LENGTH) / RandomNumberGenerator.Fill(nonce) returns iv: a
\* cryptographic generator, whose 96-bit values do not repeat
randomBytes(iv) ==
    /\ iv \notin drawn
    /\ drawn' = drawn \cup {iv}

\* catch (error) { res.status(500) } / the exception middleware
ServerError(op, userId, id) ==
    /\ todoResp' = TodoResponse(op, 500, userId, id, "none", "none")
    /\ readOf' = << >> /\ readResult' = NoRead
    /\ UNCHANGED <<todos, nextTodo, tampers, todoReqs, aesKey, serving, drawn>>
    /\ UNCHANGED authVars

\* getTodos / TodoService.GetAllAsync
GetTodos(userId) ==
    /\ IF ControllerFails
       THEN /\ readOf' = << >>
            /\ readResult' = [userId |-> userId, status |-> 500, todos |-> << >>]
       ELSE /\ readOf' = SortDesc(GetByUserId(userId))
            /\ readResult' = [userId |-> userId, status |-> 200, todos |-> DecryptAll(readOf')]
    /\ todoResp' = NoTodoResp
    /\ UNCHANGED <<todos, nextTodo, tampers, todoReqs, aesKey, serving, drawn>>
    /\ UNCHANGED authVars

\* createTodo / TodoService.CreateAsync
CreateTodo(userId, content, iv) ==
    IF ~KeyValid
    THEN ServerError("create", userId, 0)
    ELSE /\ nextTodo <= MaxTodos
         /\ todos' = todos \cup {Row(nextTodo, userId, Sealed(content, iv),
                                     WrittenAs(content, iv))}
         /\ nextTodo' = nextTodo + 1
         /\ todoResp' = TodoResponse("create", 201, userId, nextTodo, content, iv)
         /\ readOf' = << >> /\ readResult' = NoRead
         /\ randomBytes(iv)
         /\ UNCHANGED <<tampers, todoReqs, aesKey, serving>>
         /\ UNCHANGED authVars

\* an update that encrypts under the nonce the record already has
UpdateTodoKeepsIv(userId, id, content, iv) ==
    IF GetByIdAndUserId(id, userId) = {}
    THEN /\ todoResp' = TodoResponse("update", 404, userId, id, "none", "none")
         /\ readOf' = << >> /\ readResult' = NoRead
         /\ UNCHANGED <<todos, nextTodo, tampers, todoReqs, aesKey, serving, drawn>>
         /\ UNCHANGED authVars
    ELSE /\ \E todo \in GetByIdAndUserId(id, userId) :
              todos' = (todos \ {todo}) \cup
                          {Row(id, todo.userId, Sealed(content, todo.iv.bytes),
                               WrittenAs(content, todo.iv.bytes))}
         /\ todoResp' = TodoResponse("update", 200, userId, id, content, iv)
         /\ readOf' = << >> /\ readResult' = NoRead
         /\ randomBytes(iv)
         /\ UNCHANGED <<nextTodo, tampers, todoReqs, aesKey, serving>>
         /\ UNCHANGED authVars

\* updateTodo / TodoService.UpdateAsync
UpdateTodo(userId, id, content, iv) ==
    IF ControllerFails
    THEN ServerError("update", userId, id)
    ELSE IF GetByIdAndUserId(id, userId) = {}
    THEN /\ todoResp' = TodoResponse("update", 404, userId, id, "none", "none")
         /\ readOf' = << >> /\ readResult' = NoRead
         /\ UNCHANGED <<todos, nextTodo, tampers, todoReqs, aesKey, serving, drawn>>
         /\ UNCHANGED authVars
    ELSE IF ~KeyValid
    THEN ServerError("update", userId, id)
    ELSE /\ \E todo \in GetByIdAndUserId(id, userId) :
              todos' = (todos \ {todo}) \cup
                          {Row(id, todo.userId, Sealed(content, iv), WrittenAs(content, iv))}
         /\ todoResp' = TodoResponse("update", 200, userId, id, content, iv)
         /\ readOf' = << >> /\ readResult' = NoRead
         /\ randomBytes(iv)
         /\ UNCHANGED <<nextTodo, tampers, todoReqs, aesKey, serving>>
         /\ UNCHANGED authVars

\* a delete that answers 200 whether or not it removed a record
DeleteTodoAlwaysOk(userId, id) ==
    /\ todos' = todos \ GetByIdAndUserId(id, userId)
    /\ todoResp' = TodoResponse("delete", 200, userId, id, "none", "none")
    /\ readOf' = << >> /\ readResult' = NoRead
    /\ UNCHANGED <<nextTodo, tampers, todoReqs, aesKey, serving, drawn>>
    /\ UNCHANGED authVars

\* deleteTodo / TodoService.DeleteAsync
DeleteTodo(userId, id) ==
    IF ControllerFails
    THEN ServerError("delete", userId, id)
    ELSE /\ IF GetByIdAndUserId(id, userId) = {}
            THEN /\ todoResp' = TodoResponse("delete", 404, userId, id, "none", "none")
                 /\ UNCHANGED todos
            ELSE /\ todos' = todos \ GetByIdAndUserId(id, userId)
                 /\ todoResp' = TodoResponse("delete", 200, userId, id, "none", "none")
         /\ readOf' = << >> /\ readResult' = NoRead
         /\ UNCHANGED <<nextTodo, tampers, todoReqs, aesKey, serving, drawn>>
         /\ UNCHANGED authVars

\* what someone with access to the store can write into a field
HashCandidates(todo) ==
    {ToUpper(todo.integrityHash), <<"0", "0", "0", "0">>}
        \cup {computeSHA256(p) : p \in Plaintexts}
FieldCandidates(todo, field) ==
    CASE field = "encryptedContent" ->
            {Base64(GarbageCipher), WithJunk(todo.encryptedContent)}
                \cup {t.encryptedContent : t \in todos}
      [] field = "iv" ->
            {Base64(GarbageIv), WithJunk(todo.iv)} \cup {t.iv : t \in todos}
      [] field = "authTag" ->
            {Base64(GarbageTag), WithJunk(todo.authTag),
             Base64(Truncated(todo.authTag.bytes, 4))} \cup {t.authTag : t \in todos}
      [] field = "integrityHash" -> HashCandidates(todo)

FieldNames == {"encryptedContent", "iv", "authTag", "integrityHash"}

\* a stored field altered behind the program
Tamper(id, field) ==
    /\ tampers < MaxTampers
    /\ \E todo \in {t \in todos : t.id = id} :
          \E value \in FieldCandidates(todo, field) :
             /\ value # todo[field]
             /\ todos' = (todos \ {todo}) \cup {[todo EXCEPT ![field] = value]}
    /\ tampers' = tampers + 1
    /\ UNCHANGED <<nextTodo, readOf, readResult, todoResp, todoReqs, aesKey, serving, drawn>>
    /\ UNCHANGED authVars

(***************************************************************************)
(* Updates as they run concurrently: each request loads the record, then   *)
(* saves it; other requests run in between.                                *)
(***************************************************************************)
\* the paths todo.save() sends in $set: those whose assigned value differs from the
\* value the document was loaded with
ModifiedPaths(doc, new) == {f \in FieldNames : new[f] # doc[f]}

\* the stored record after the save: node updates the modified paths of the stored
\* document; dotnet writes the row it holds
SaveDoc(stored, doc, new, written) ==
    IF impl = "node"
    THEN Row(stored.id, stored.userId,
             [f \in FieldNames |->
                IF f \in ModifiedPaths(doc, new) THEN new[f] ELSE stored[f]],
             written)
    ELSE Row(stored.id, stored.userId, new, written)

\* updateTodo, line 154 / UpdateAsync, line 276: the record loaded for its owner
UpdateBegin(r, userId, id) ==
    /\ KeyValid
    /\ todoReqs[r].pc # "loaded"
    /\ IF GetByIdAndUserId(id, userId) = {}
       THEN /\ todoResp' = TodoResponse("update", 404, userId, id, "none", "none")
            /\ readOf' = << >> /\ readResult' = NoRead
            /\ UNCHANGED todoReqs
       ELSE /\ todoReqs' = [todoReqs EXCEPT ![r] =
                               [pc |-> "loaded", userId |-> userId, id |-> id,
                                doc |-> GetByIdAndUserId(id, userId)]]
            /\ UNCHANGED <<readOf, readResult, todoResp>>
    /\ UNCHANGED <<todos, nextTodo, tampers, aesKey, serving, drawn>>
    /\ UNCHANGED authVars

\* a save that inserts the document it holds when the stored one is gone (an upsert)
UpdateCommitUpsert(r, content, iv) ==
    /\ todoReqs[r].pc = "loaded"
    /\ \E doc \in todoReqs[r].doc :
          LET stored == {t \in todos : t.id = doc.id}
              target == IF stored = {} THEN {doc} ELSE stored
          IN /\ todos' = (todos \ stored) \cup
                            {SaveDoc(t, doc, Sealed(content, iv), WrittenAs(content, iv)) :
                               t \in target}
             /\ todoResp' = TodoResponse("update", 200, todoReqs[r].userId, doc.id,
                                         content, iv)
    /\ todoReqs' = [todoReqs EXCEPT ![r] = IdleTodo]
    /\ readOf' = << >> /\ readResult' = NoRead
    /\ randomBytes(iv)
    /\ UNCHANGED <<nextTodo, tampers, aesKey, serving>>
    /\ UNCHANGED authVars

\* updateTodo, lines 162-173 / UpdateAsync, lines 283-293: the four fields assigned, saved
UpdateCommit(r, content, iv) ==
    /\ todoReqs[r].pc = "loaded"
    /\ \E doc \in todoReqs[r].doc :
          LET stored == {t \in todos : t.id = doc.id} IN
          IF stored = {}
          THEN /\ todoResp' = TodoResponse("update", 500, todoReqs[r].userId, doc.id,
                                           "none", "none")
               /\ UNCHANGED todos
          ELSE /\ todos' = (todos \ stored) \cup
                              {SaveDoc(t, doc, Sealed(content, iv), WrittenAs(content, iv)) :
                                 t \in stored}
               /\ todoResp' = TodoResponse("update", 200, todoReqs[r].userId, doc.id,
                                           content, iv)
    /\ todoReqs' = [todoReqs EXCEPT ![r] = IdleTodo]
    /\ readOf' = << >> /\ readResult' = NoRead
    /\ randomBytes(iv)
    /\ UNCHANGED <<nextTodo, tampers, aesKey, serving>>
    /\ UNCHANGED authVars

\* server.js: app.listen / Program.cs: app.Run, neither preceded by a check of the key
Startup ==
    /\ ~serving
    /\ serving' = TRUE
    /\ UNCHANGED <<todos, nextTodo, tampers, readOf, readResult, todoResp, todoReqs, aesKey, drawn>>
    /\ UNCHANGED authVars

\* the two accounts of the record pipeline's behaviours: the state after
\* Register("a@x.io", ...) and Register("b@x.io", ...)
RegisteredAuth ==
    /\ impl \in Impls
    /\ refreshSecretSet = FALSE
    /\ now = 0
    /\ users = {[id |-> 1, email |-> "a@x.io",
                 passwordHash |-> HashPassword("Passw0rd1", "salt1"), googleId |-> "none"],
                [id |-> 2, email |-> "b@x.io",
                 passwordHash |-> HashPassword("Passw0rd1", "salt1"), googleId |-> "none"]}
    /\ refreshTokens = IF impl = "dotnet"
                       THEN {[token |-> OpaqueToken(n), userId |-> n,
                              expiresAt |-> RefreshLife,
                              isRevoked |-> FALSE] : n \in {1, 2}}
                       ELSE {}
    /\ nextToken = IF impl = "dotnet" THEN 3 ELSE 1
    /\ handed = {[tok |-> IF impl = "dotnet" THEN OpaqueToken(n)
                           ELSE generateRefreshToken(n),
                   userId |-> n] : n \in {1, 2}}
    /\ resp = Response("register", 201, "none", 2, NoToken,
                       IF impl = "dotnet" THEN OpaqueToken(2) ELSE generateRefreshToken(2),
                       TRUE)
    /\ okCount = << >>
    /\ loggedOut = {}
    /\ reqs = [r \in Slots |-> Idle]
    /\ accessTokens = {generateAccessToken(n) : n \in {1, 2}}
    /\ guard = NoGuard
    /\ attempt = NoAttempt

InitRegistered ==
    /\ InitTodoVars
    /\ RegisteredAuth

\* a process starting over a store that holds a record of an earlier run, with the key
\* configuration it is given
InitStartup ==
    /\ RegisteredAuth
    /\ todos = {Row(1, 1, Sealed("buy milk", "iv1"), WrittenAs("buy milk", "iv1"))}
    /\ nextTodo = 2
    /\ tampers = 0
    /\ readOf = << >>
    /\ readResult = NoRead
    /\ todoResp = NoTodoResp
    /\ todoReqs = [r \in Slots |-> IdleTodo]
    /\ aesKey \in KeyConfigs
    /\ serving = FALSE
    /\ drawn = {"iv1"}

\* two sessions open (one per subject), then only logouts and refreshes, interleaved
InitLogoutRace ==
    /\ InitRegistered
    /\ impl = "dotnet"

NextLogoutRace ==
    \/ \E r \in Slots, tok \in Presentable : RefreshBegin(r, tok)
    \/ \E r \in Slots : RefreshCommit(r)
    \/ \E r \in Slots : RefreshFail(r)
    \/ \E r \in Slots, userId \in UserIds : LogoutBegin(r, userId)
    \/ \E r \in Slots : LogoutCommit(r)

SpecLogoutRace == InitLogoutRace /\ [][NextLogoutRace]_vars

NextTodo ==
    \/ \E userId \in UserIds : GetTodos(userId)
    \/ \E userId \in UserIds, content \in Plaintexts, iv \in Ivs :
          CreateTodo(userId, content, iv)
    \/ \E userId \in UserIds, id \in TodoIds, content \in Plaintexts, iv \in Ivs :
          UpdateTodo(userId, id, content, iv)
    \/ \E userId \in UserIds, id \in TodoIds : DeleteTodo(userId, id)
    \/ \E id \in TodoIds, field \in FieldNames : Tamper(id, field)

\* what a request can carry as content
Contents == Plaintexts \cup {LoneSurrogate}

NextPipeline ==
    \/ \E userId \in UserIds : GetTodos(userId)
    \/ \E userId \in UserIds, content \in Contents, iv \in Ivs :
          CreateTodo(userId, content, iv)
    \/ \E userId \in UserIds, id \in TodoIds, content \in Contents, iv \in Ivs :
          UpdateTodo(userId, id, content, iv)
    \/ \E userId \in UserIds, id \in TodoIds : DeleteTodo(userId, id)

\* the owner whose one record the interleaved updates are about
RaceOwners == {u \in UserIds : \A o \in UserIds : u <= o}

NextUpdateRace ==
    \/ \E userId \in RaceOwners : GetTodos(userId)
    \/ \E userId \in RaceOwners, content \in Plaintexts, iv \in Ivs :
          todos = {} /\ CreateTodo(userId, content, iv)
    \/ \E r \in Slots, userId \in RaceOwners, id \in TodoIds : UpdateBegin(r, userId, id)
    \/ \E r \in Slots, content \in Plaintexts, iv \in Ivs : UpdateCommit(r, content, iv)

\* one owner's updates and deletes of one record, interleaved
NextDeleteRace ==
    \/ \E userId \in RaceOwners : GetTodos(userId)
    \/ \E userId \in RaceOwners, content \in Plaintexts, iv \in Ivs :
          todos = {} /\ CreateTodo(userId, content, iv)
    \/ \E r \in Slots, userId \in RaceOwners, id \in TodoIds : UpdateBegin(r, userId, id)
    \/ \E r \in Slots, content \in Plaintexts, iv \in Ivs : UpdateCommit(r, content, iv)
    \/ \E userId \in RaceOwners, id \in TodoIds : DeleteTodo(userId, id)

NextStartup ==
    \/ Startup
    \/ \E userId \in UserIds : serving /\ GetTodos(userId)
    \/ \E userId \in UserIds, content \in Plaintexts, iv \in Ivs :
          serving /\ CreateTodo(userId, content, iv)
    \/ \E userId \in UserIds, id \in TodoIds, content \in Plaintexts, iv \in Ivs :
          serving /\ UpdateTodo(userId, id, content, iv)
    \/ \E userId \in UserIds, id \in TodoIds : serving /\ DeleteTodo(userId, id)

(***************************************************************************)
(* Specifications                                                          *)
(***************************************************************************)
\* the credential/session system, one request at a time
GoogleIds == {"g1", "g2"}

NextAccounts ==
    \/ \E email \in Emails, password \in RegisterPasswords, salt \in Salts :
          Register(email, password, salt)
    \/ \E email \in Emails, password \in Passwords : Login(email, password)
    \/ \E googleId \in GoogleIds, email \in Emails, salt \in Salts :
          GoogleLogin(googleId, email, salt)
    \/ \E tok \in Presentable : Refresh(tok)

SpecAccounts == InitAuth /\ [][NextAccounts]_vars

\* a refresh token of an account that is no longer in the database: the server signed it
\* (node); its row went with the account (dotnet, cascade delete)
OrphanRefresh ==
    IF impl = "dotnet" THEN OpaqueToken(0)
    ELSE [kind |-> "jwt", id |-> 0, userId |-> Cardinality(Emails) + 1, typ |-> "refresh",
          iat |-> 0, exp |-> (MaxTicks + 1) * RefreshLife, key |-> RefreshSecret]

\* what a refresh request can carry: any token the server returned, of either kind
RefreshInputs == Presentable \cup accessTokens \cup {OrphanRefresh}

\* tokens of both kinds presented to both entry points
NextKinds ==
    \/ \E email \in Emails, password \in RegisterPasswords, salt \in Salts :
          Register(email, password, salt)
    \/ \E email \in Emails, password \in Passwords : Login(email, password)
    \/ \E tok \in RefreshInputs : Refresh(tok)
    \/ \E cred \in Credentials : Authenticate(cred)

SpecKinds == InitAuth /\ [][NextKinds]_vars

SpecAuth == InitAuth /\ [][NextAuth]_vars
\* the dotnet session handlers, interleaved at their database accesses
SpecRace == InitRace /\ [][NextRace]_vars
\* the record pipeline of two registered owners, one request at a time
SpecTodo == InitRegistered /\ [][NextTodo]_vars
\* the record pipeline over every content a request can carry
SpecPipeline == InitRegistered /\ [][NextPipeline]_vars
\* the record pipeline with updates interleaved
SpecUpdateRace == InitRegistered /\ [][NextUpdateRace]_vars
\* updates of a record interleaved with its deletion
SpecDeleteRace == InitRegistered /\ [][NextDeleteRace]_vars

\* the process from its start, under each key configuration
SpecStartup == InitStartup /\ [][NextStartup]_vars


(***************************************************************************)
(* Properties: the session's refresh tokens                                *)
(***************************************************************************)
\* the successful refreshes of tok after the step
UsesNext(tok) == IF tok \in DOMAIN okCount' THEN okCount'[tok] ELSE 0

\* the token has not passed its expiry: the row's ExpiresAt (dotnet), the JWT's exp (node)
Unexpired(tok) ==
    IF impl = "dotnet"
    THEN \E rt \in refreshTokens : rt.token = tok /\ rt.expiresAt > now
    ELSE now < tok.exp

\* the token is one the server issued, unexpired, not yet rotated away and not logged out
Active(tok) ==
    /\ tok \in HandedTokens
    /\ Unexpired(tok)
    /\ Uses(tok) = 0
    /\ tok \notin loggedOut

\* a step that answers a refresh request
RefreshAnswered == resp'.op = "refresh" /\ (resp' # resp \/ okCount' # okCount)

\* C1: a refresh token is accepted by refresh at most once, and the refresh that
\* accepts it answers with a newly issued refresh token other than the one presented
C1_RotatesExactlyOnce ==
    /\ \A tok \in DOMAIN okCount : okCount[tok] <= 1
    /\ (resp.op = "refresh" /\ resp.status = 200) =>
          /\ resp.refreshToken \in HandedTokens
          /\ resp.refreshToken # resp.presented
          /\ ~Active(resp.presented)

\* C2: of the refresh requests in flight on one token at most one is answered 200,
\* so the token is the parent of at most one new pair
C2_OneRacerSucceeds ==
    \A r1 \in Slots, r2 \in Slots :
          (/\ r1 # r2
           /\ reqs[r1].op = "refresh" /\ reqs[r2].op = "refresh"
           /\ reqs[r1].pc = "done" /\ reqs[r2].pc = "done"
           /\ reqs[r1].tok = reqs[r2].tok)
          => ~(reqs[r1].status = 200 /\ reqs[r2].status = 200)

\* C8: a stored refresh token that is Revoked stays stored and Revoked in every later
\* state, and no later refresh accepts it
C8_RevokedIsFinal ==
    [][\A rt \in refreshTokens :
          rt.isRevoked =>
             /\ \E n \in refreshTokens' : n.token = rt.token
             /\ \A n \in refreshTokens' : n.token = rt.token => n.isRevoked
             /\ UsesNext(rt.token) = Uses(rt.token)]_vars

\* a refresh presenting a Revoked stored token has been answered 401 InvalidToken
C8_Witness ==
    /\ resp.op = "refresh" /\ resp.status = 401 /\ resp.error = "InvalidToken"
    /\ \E rt \in refreshTokens : rt.token = resp.presented /\ rt.isRevoked
    /\ Uses(resp.presented) = 1

\* C9: no refresh token the subject held when it logged out is accepted by a later refresh
C9_LogoutRevokesAll ==
    [][\A tok \in loggedOut : UsesNext(tok) = Uses(tok)]_vars

\* C10: a refresh is answered 200 when the presented token is stored, unexpired and
\* Active, and 401 InvalidToken, accepting nothing, in every other case
C10_RefreshOnlyActive ==
    [][RefreshAnswered =>
          IF Active(resp'.presented)
          THEN resp'.status = 200
          ELSE /\ resp'.status = 401
               /\ resp'.error = "InvalidToken"
               /\ okCount' = okCount]_vars

C12_IssuedTokensStored ==
    [][\A h \in handed' \ handed :
          \E rt \in refreshTokens' :
             /\ rt.token = h.tok /\ rt.userId = h.userId
             /\ ~rt.isRevoked /\ rt.expiresAt > now']_vars

\* C13: the guard accepts an access token the server issued exactly while it is
\* unexpired, whatever the refresh-token store holds and whether or not its subject
\* has logged out; when it refuses one, it is as Expired
C13_AccessValidationStateless ==
    [][(guard' # guard /\ guard'.cred \in accessTokens) =>
          /\ guard'.outcome = "Principal" <=> now < guard'.cred.exp
          /\ guard'.outcome # "Principal" => guard'.outcome = "Expired"]_vars

\* an access token was accepted after its subject had logged out
C13_Witness ==
    /\ guard.outcome = "Principal" /\ guard.handler
    /\ guard.cred \in accessTokens
    /\ guard.ended

CipherUntouched(row) ==
    /\ row.encryptedContent = row.written.encryptedContent
    /\ row.iv = row.written.iv
    /\ row.authTag = row.written.authTag

\* a step that answers a batch read
ReadAnswered == tampers' = tampers /\ readResult'.status = 200

\* C3: a read entry carries the decrypted content, tampered = false, only if both the
\* cipher authentication and the digest check of its record succeeded; otherwise it
\* carries a marker and tampered = true
C3_NoUnverifiedPlaintext ==
    \A i \in DOMAIN readResult.todos :
        LET row == readOf[i]
            entry == readResult.todos[i]
        IN IF Verified(row)
           THEN entry.tampered = FALSE =>
                   entry.content = decrypt(row.encryptedContent, row.iv, row.authTag)
           ELSE entry.tampered = TRUE /\ entry.content \in Markers

\* a record that decrypts but fails the digest check was read, and its content withheld
C3_Witness ==
    \E i \in DOMAIN readResult.todos :
        /\ Authentic(readOf[i]) /\ ~Verified(readOf[i])
        /\ readResult.todos[i].tampered = TRUE
        /\ readResult.todos[i].content \in Markers

\* C4: read decrypts first and verifies the digest only after a successful decryption,
\* and reports exactly one of: clean, tampered (integrity marker), corrupted
\* (decryption marker, a different text)
C4_ThreeWayClassification ==
    /\ IntegrityMarker # CorruptedMarker
    /\ \A i \in DOMAIN readResult.todos :
          LET row == readOf[i]
              entry == readResult.todos[i]
          IN CASE ~Authentic(row) ->
                    /\ entry.content = CorruptedMarker /\ entry.tampered = TRUE
                    /\ entry.ran = <<"decrypt">>
                    /\ impl = "node" => entry.error = "Decryption failed"
               [] Authentic(row) /\ ~Verified(row) ->
                    /\ entry.content = IntegrityMarker /\ entry.tampered = TRUE
                    /\ entry.ran = <<"decrypt", "verify">>
               [] OTHER ->
                    /\ entry.content \notin Markers /\ entry.tampered = FALSE
                    /\ entry.ran = <<"decrypt", "verify">>

\* one read reported a corrupted record and a clean one
C4_Witness ==
    \E i \in DOMAIN readResult.todos, j \in DOMAIN readResult.todos :
        /\ ~Authentic(readOf[i]) /\ readResult.todos[i].content = CorruptedMarker
        /\ Verified(readOf[j]) /\ readResult.todos[j].tampered = FALSE

\* C5 as stated: with ciphertext, nonce and tag untouched, a stored digest that differs
\* from the written one is read as tampered
C5_AnyDigestAlterationTampered ==
    \A i \in DOMAIN readResult.todos :
        (/\ CipherUntouched(readOf[i])
         /\ readOf[i].integrityHash # readOf[i].written.integrityHash)
        => /\ readResult.todos[i].tampered = TRUE
           /\ readResult.todos[i].content = IntegrityMarker

\* C5: with ciphertext, nonce and tag untouched, a stored digest that differs from the
\* written one by more than the letter case of its hex digits (node: that differs at
\* all) is read as tampered
C5_DigestAlterationTampered ==
    \A i \in DOMAIN readResult.todos :
        (/\ CipherUntouched(readOf[i])
         /\ \/ ToLower(readOf[i].integrityHash) # ToLower(readOf[i].written.integrityHash)
            \/ /\ impl = "node"
               /\ readOf[i].integrityHash # readOf[i].written.integrityHash)
        => /\ readResult.todos[i].tampered = TRUE
           /\ readResult.todos[i].content = IntegrityMarker

\* a record whose digest was replaced by another digest was read as tampered
C5_Witness ==
    \E i \in DOMAIN readResult.todos :
        /\ CipherUntouched(readOf[i])
        /\ ToLower(readOf[i].integrityHash) # ToLower(readOf[i].written.integrityHash)
        /\ readResult.todos[i].content = IntegrityMarker

\* C6: read returns only the caller's records, create stores under the caller, and an
\* update or delete aimed at another owner's record answers 404 and changes nothing
C6_OwnershipEnforced ==
    [][/\ \A i \in DOMAIN readOf' : readOf'[i].userId = readResult'.userId
       /\ (todoResp'.op = "create" /\ nextTodo' # nextTodo) =>
             \A t \in todos' \ todos : t.userId = todoResp'.userId
       /\ (/\ tampers' = tampers
           /\ todoResp'.op \in {"update", "delete"}
           /\ \E t \in todos : t.id = todoResp'.id /\ t.userId # todoResp'.userId)
          => (todoResp'.status = 404 /\ todos' = todos)]_vars

\* an update aimed at another owner's record was answered 404
C6_Witness ==
    /\ todoResp.op = "update" /\ todoResp.status = 404
    /\ \E t \in todos : t.id = todoResp.id /\ t.userId # todoResp.userId

\* C7: a batch read answers with exactly one entry per stored record of the caller,
\* each the classification of that record alone, whatever the other records are
C7_BatchIndependent ==
    [][ReadAnswered =>
          LET rows == GetByUserId(readResult'.userId) IN
          /\ Len(readResult'.todos) = Cardinality(rows)
          /\ \A t \in rows :
                /\ Cardinality({i \in DOMAIN readResult'.todos :
                                   readResult'.todos[i].id = t.id}) = 1
                /\ \E i \in DOMAIN readResult'.todos :
                      readResult'.todos[i] = DecryptTodo(t)]_vars

\* a read whose first record failed still reported the record after it as clean
C7_Witness ==
    /\ Len(readResult.todos) = MaxTodos
    /\ readResult.todos[1].tampered = TRUE
    /\ readResult.todos[Len(readResult.todos)].tampered = FALSE

(***************************************************************************)
(* Properties: the record pipeline's writes                                *)
(***************************************************************************)
\* the four stored fields are the ones one create or update computed
FromOneWrite(row) ==
    \E content \in Contents, iv \in Ivs : Fields(row) = Sealed(content, iv)

\* the string survives UTF-8 encoding and decoding
WellFormed(content) == Utf8Decode(Utf8Encode(content)) = content

\* C15: whatever the interleaving of updates and reads of one record, its four stored
\* fields come from one single update, and no read classifies it as tampered or
\* corrupted
C15_UpdatesAtomic ==
    /\ \A t \in todos : FromOneWrite(t)
    /\ \A i \in DOMAIN readResult.todos : readResult.todos[i].tampered = FALSE

\* C16 as stated: for every content given to create or update, the stored record has
\* its four fields and a following read returns exactly that content, tampered = false
C16_RoundTripAnyContent ==
    \A i \in DOMAIN readResult.todos :
        /\ FromOneWrite(readOf[i])
        /\ readResult.todos[i].tampered = FALSE
        /\ readResult.todos[i].content = readOf[i].written.content

\* C16: for every content given to create or update, the stored record has its four
\* fields and a following read returns, tampered = false, the content as it is after
\* UTF-8 encoding: exactly the content given whenever that is well-formed text
C16_RoundTrip ==
    \A i \in DOMAIN readResult.todos :
        /\ FromOneWrite(readOf[i])
        /\ readResult.todos[i].tampered = FALSE
        /\ readResult.todos[i].content =
              Utf8Decode(Utf8Encode(readOf[i].written.content))
        /\ WellFormed(readOf[i].written.content) =>
              readResult.todos[i].content = readOf[i].written.content

\* a read returned the content an update had stored
C16_Witness ==
    /\ readResult.status = 200
    /\ \E i \in DOMAIN readResult.todos :
          /\ readResult.todos[i].content = readOf[i].written.content
          /\ readResult.todos[i].content \in Plaintexts
          /\ readResult.todos[i].tampered = FALSE
          /\ readOf[i].iv # Base64("iv1")

\* C17: a delete of a record the caller owns answers 200 and removes exactly that
\* record; a delete of an id the caller has no record under answers 404 and leaves
\* the store as it was
C17_DeleteReportsNotFound ==
    [][(tampers' = tampers /\ todoResp'.op = "delete") =>
          LET mine == {t \in todos :
                          t.id = todoResp'.id /\ t.userId = todoResp'.userId}
          IN IF mine # {}
             THEN todoResp'.status = 200 /\ todos' = todos \ mine
             ELSE todoResp'.status = 404 /\ todos' = todos]_vars

\* a delete of an id that had been created and is gone was answered 404
C17_Witness ==
    /\ todoResp.op = "delete" /\ todoResp.status = 404
    /\ todoResp.id < nextTodo
    /\ \A t \in todos : t.id # todoResp.id

\* C18: a record whose stored ciphertext, nonce or tag differs from what was written
\* fails decryption: read reports it with the decryption marker
C18_AlteredCipherFailsDecrypt ==
    \A i \in DOMAIN readResult.todos :
        ~CipherUntouched(readOf[i]) =>
            /\ readResult.todos[i].content = CorruptedMarker
            /\ readResult.todos[i].tampered = TRUE

C20_KeyFailFast ==
    ~KeyValid =>
        /\ ~serving
        /\ readResult = NoRead
        /\ todoResp = NoTodoResp

(***************************************************************************)
(* Properties: record construction                                         *)
(***************************************************************************)
\* the stored tag and digest have the lengths encrypt and computeSHA256 produce
LengthValid(row) ==
    /\ row.authTag.bytes.len = AUTH_TAG_LENGTH
    /\ Len(row.integrityHash) = Len(row.written.integrityHash)

\* C21: a stored record with a field of the wrong length is rejected by read as an
\* error: it is neither decrypted nor listed with the tampered flag
C21_MalformedRejected ==
    \A i \in DOMAIN readResult.todos : LengthValid(readOf[i])

(* Properties: accounts *)
\* the account a login names, the password it was registered with, and no token issued
LoginAccount == UserByEmail(attempt.email)
RegisteredWith(u, password) == u.passwordHash # NoHash /\ u.passwordHash.of = password
NoTokenIssued == resp.refreshToken = NoToken /\ ~resp.access

\* C22: a login with the registered password succeeds and issues tokens; with any other
\* password it fails with invalid credentials and no token; against an account without
\* password (federated only) it fails with 401 for every password and no token
C22_PasswordLogin ==
    attempt.op = "login" =>
        /\ resp.op = "login"
        /\ \A u \in LoginAccount :
              /\ RegisteredWith(u, attempt.password) =>
                    /\ resp.status = 200 /\ resp.userId = u.id
                    /\ resp.refreshToken # NoToken /\ resp.access
              /\ (u.passwordHash # NoHash /\ ~RegisteredWith(u, attempt.password)) =>
                    /\ resp.status = 401 /\ resp.error = "InvalidCredentials"
                    /\ NoTokenIssued
              /\ u.passwordHash = NoHash =>
                    /\ resp.status = 401 /\ resp.error = "GoogleUserNoPassword"
                    /\ NoTokenIssued
        /\ LoginAccount = {} => resp.status = 401 /\ NoTokenIssued

\* a login against an account created by federated login was refused
C22_Witness ==
    /\ attempt.op = "login" /\ resp.status = 401 /\ resp.error = "GoogleUserNoPassword"
    /\ \E u \in LoginAccount : u.passwordHash = NoHash /\ u.googleId # "none"

\* C23: every stored credential's password field is absent or a salted bcrypt hash of
\* the password at the configured cost, never the password itself
C23_NoPlaintextStored ==
    \A u \in users :
        \/ u.passwordHash = NoHash
        \/ /\ u.passwordHash.alg = "bcrypt" /\ u.passwordHash.cost = WorkFactor
           /\ u.passwordHash.salt \in Salts

\* a registered account that was later linked to a provider id, next to a federated-only one
C23_Witness ==
    /\ \E u \in users : u.passwordHash # NoHash /\ u.googleId # "none"
    /\ \E u \in users : u.passwordHash = NoHash /\ u.googleId # "none"
    /\ resp.op = "refresh" /\ resp.status = 200

(* Properties: refresh *)
\* C24: a refresh answered 401 leaves the token store as it was: no stored token changes
\* state, none is added, no token is issued and no session is ended
C24_RejectedRefreshOnlyRejects ==
    [][(resp'.op = "refresh" /\ resp'.status = 401) =>
          /\ refreshTokens' = refreshTokens
          /\ handed' = handed /\ nextToken' = nextToken
          /\ accessTokens' = accessTokens
          /\ loggedOut' = loggedOut]_vars

\* the replay of a rotated token was refused while its successor is still Active
C24_Witness ==
    /\ resp.op = "refresh" /\ resp.status = 401
    /\ \E rt \in refreshTokens :
          /\ rt.token = resp.presented /\ rt.isRevoked
          /\ \E succ \in refreshTokens :
                succ.userId = rt.userId /\ ~succ.isRevoked /\ succ.token # rt.token

(* Properties: federated login *)
\* C25: a federated login matches the user holding the provider id; else links the id to
\* the user holding the email; else creates a user. It never leaves two users with one
\* email, and the user it returns holds the provider id, so a repetition is a match
C25_FederatedDecision ==
    [][attempt'.op = "google" =>
          LET googleId == attempt'.googleId
              email == attempt'.email
              byId == UserByGoogleId(googleId)
              byEmail == UserByEmail(email)
          IN /\ byId # {} =>
                   /\ attempt'.outcome = "Matched" /\ users' = users
                   /\ \E u \in byId : resp'.userId = u.id
             /\ (byId = {} /\ byEmail # {}) =>
                   /\ attempt'.outcome = "Linked"
                   /\ {u.id : u \in users'} = {u.id : u \in users}
                   /\ \E u \in byEmail : resp'.userId = u.id
             /\ (byId = {} /\ byEmail = {}) =>
                   /\ attempt'.outcome = "Created"
                   /\ Cardinality(users') = Cardinality(users) + 1
                   /\ \E v \in users' \ users : v.email = email /\ resp'.userId = v.id
             /\ \E v \in users' : v.googleId = googleId /\ v.id = resp'.userId
             /\ \A u \in users', v \in users' : u.email = v.email => u = v]_vars

\* with two users stored, a federated login whose email is one user's was matched to the
\* other user, who holds the provider id
C25_Witness ==
    /\ attempt.op = "google" /\ attempt.outcome = "Matched"
    /\ Cardinality(users) = 2
    /\ UserByEmail(attempt.email) # {}
    /\ \E u \in UserByGoogleId(attempt.googleId) :
          u.id = resp.userId /\ u.email # attempt.email

(* Properties: token kinds and subjects *)
\* C26: refresh accepts only tokens issued as refresh tokens, and the authentication
\* guard lets only tokens issued as access tokens through, whatever the signing secrets
C26_TokenKindsDistinct ==
    /\ (resp.op = "refresh" /\ resp.status = 200) => resp.presented \in HandedTokens
    /\ guard.handler => guard.cred \notin HandedTokens

(* Properties: logout racing with refresh *)
\* C27: once a logout of a subject and the refreshes racing with it have completed, no
\* refresh token of that subject is Active (no new session is opened in these runs, so
\* every token of the subject derives from the session open before the logout)
C27_LogoutBeatsRefresh ==
    \A r \in Slots :
        (/\ reqs[r].op = "logout" /\ reqs[r].pc = "done" /\ reqs[r].status = 200
         /\ InFlight = {})
        => \A rt \in UserRefreshTokens(refreshTokens, reqs[r].userId) : rt.isRevoked

(* Properties: delete racing with update *)
\* the record with this id has been created and is no longer stored
Deleted(id) == id < nextTodo /\ ~\E t \in todos : t.id = id

\* C28: a record that has been deleted is in no later state of the store and in no later
\* read, whatever updates were in flight when it was deleted
C28_NoResurrection ==
    [][\A id \in TodoIds :
          Deleted(id) =>
             /\ ~\E t \in todos' : t.id = id
             /\ \A i \in DOMAIN readOf' : readOf'[i].id # id]_vars

\* an update that had loaded the record before its deletion has failed, the record absent
C28_Witness ==
    /\ todoResp.op = "update" /\ todoResp.status = 500
    /\ Deleted(todoResp.id)

\* the subject a presented token was issued to (for a JWT nobody was handed: its claim)
Owner(tok) ==
    IF \E h \in handed : h.tok = tok
    THEN {h.userId : h \in {x \in handed : x.tok = tok}}
    ELSE {tok.userId}

\* C29: a refresh answered 200 is answered for the owner of the presented token, who
\* exists; the access token and the refresh token it issues carry that subject; a
\* refresh presenting the token of a subject that no longer exists is refused
C29_RefreshKeepsSubject ==
    [][RefreshAnswered =>
          /\ resp'.status = 200 =>
                /\ resp'.userId \in Owner(resp'.presented)
                /\ UserById(resp'.userId) # {}
                /\ \A h \in handed' \ handed :
                      h.userId = resp'.userId /\ h.tok = resp'.refreshToken
                /\ \A a \in accessTokens' \ accessTokens : a.userId = resp'.userId
                /\ \E a \in accessTokens' :
                      a.userId = resp'.userId /\ a.typ = "access" /\ a.iat = now
          /\ resp'.presented = OrphanRefresh =>
                resp'.status = 401 /\ accessTokens' = accessTokens]_vars

\* with two subjects registered, the second one's refresh token was refreshed
C29_Witness ==
    /\ resp.op = "refresh" /\ resp.status = 200
    /\ Cardinality(users) = 2
    /\ resp.userId = 2 /\ resp.presented \in IssuedTo(2)

(* Properties: the digest across account linking *)
\* C30: no step re-hashes a stored passwordHash; a federated login that links a provider
\* id to a password account leaves the account with the same passwordHash and the
\* provider id, and a login of a linked account with its registered password succeeds
C30_DigestHashedOnce ==
    [][/\ \A u \in users :
             \E v \in users' :
                /\ v.id = u.id /\ v.passwordHash = u.passwordHash
                /\ (attempt'.op = "google" /\ attempt'.outcome = "Linked"
                      /\ u.email = attempt'.email) => v.googleId = attempt'.googleId
       /\ \A v \in users' :
             (/\ attempt'.op = "login" /\ attempt'.email = v.email
              /\ attempt'.password \in RegisterPasswords
              /\ v.googleId # "none" /\ v.passwordHash # NoHash)
             => resp'.status = 200 /\ resp'.userId = v.id]_vars

\* an account registered with a password and later linked logged in with that password
C30_Witness ==
    /\ attempt.op = "login" /\ resp.status = 200
    /\ \E u \in users :
          /\ u.id = resp.userId
          /\ u.googleId # "none" /\ u.passwordHash # NoHash
====
